---- MODULE Spec2Model ----
(***************************************************************************)
(* Model of the client-side authentication flow of                        *)
(* src/src/components/auth/Login.jsx: the Login and the Signup component,  *)
(* their submit handlers, the requests they have in flight, the browser's  *)
(* localStorage and the redirects they issue.                              *)
(*                                                                         *)
(* JavaScript strings are TLA+ strings (Len and SubSeq read their          *)
(* characters).  One step of the model is one run-to-completion step of    *)
(* the UI event loop: an event handler up to its first await, or the       *)
(* continuation of a handler after its awaited request has settled.        *)
(***************************************************************************)
EXTENDS Naturals, Sequences, FiniteSets

VARIABLES
    view,          \* the mounted component: "login", "signup" or "none"
    location,      \* location.state of the mounted route: [role, from]
    login,         \* useState of Login: [email, password, error, loading]
    signup,        \* useState of Signup: [formData, error, loading, passwordStrength, role]
    localStorage,  \* the entries token, userRole, email (Null when absent)
    pending,       \* the handlers suspended at await fetch(...), oldest first
    last           \* what the last step did: the event, its request, its redirect

vars == <<view, location, login, signup, localStorage, pending, last>>

(***************************************************************************)
(* Bounds of the model.                                                    *)
(***************************************************************************)
MaxInflight == 2   \* requests that may be awaiting their response at once
MaxOrphans == 0    \* requests that may be awaiting their response when a view mounts

(***************************************************************************)
(* JavaScript values.  Undefined and Null stand for the values undefined   *)
(* and null; no string of the model equals them.                           *)
(***************************************************************************)
Undefined == "#undefined"
Null == "#null"

\* if (v), v || w, v && w: undefined, null and "" are falsy
Truthy(v) == v \notin {Undefined, Null, ""}

Or(v, w) == IF Truthy(v) THEN v ELSE w

\* localStorage.setItem(key, v) stores String(v)
JsString(v) ==
    IF v = Undefined THEN "undefined" ELSE IF v = Null THEN "null" ELSE v

CharAt(s, i) == SubSeq(s, i, i)

\* \s of a regular expression, and the characters String.prototype.trim strips
IsSpace(c) == c \in {" ", "\t", "\n"}

RECURSIVE TrimStart(_)
TrimStart(s) ==
    IF Len(s) > 0 /\ IsSpace(CharAt(s, 1)) THEN TrimStart(SubSeq(s, 2, Len(s))) ELSE s

RECURSIVE TrimEnd(_)
TrimEnd(s) ==
    IF Len(s) > 0 /\ IsSpace(CharAt(s, Len(s)))
    THEN TrimEnd(SubSeq(s, 1, Len(s) - 1))
    ELSE s

Trim(s) == TrimEnd(TrimStart(s))

(***************************************************************************)
(* localStorage                                                            *)
(***************************************************************************)
EmptyStorage == [token |-> Null, userRole |-> Null, email |-> Null]

getItem(store, key) == store[key]

setItem(store, key, v) == [store EXCEPT ![key] = JsString(v)]

\* userRole === "admin" ? "/admin/dashboard" : "/user/dashboard"
Dashboard(role) == IF role = "admin" THEN "/admin/dashboard" ELSE "/user/dashboard"

(***************************************************************************)
(* Validator                                                               *)
(***************************************************************************)
\* [^\s@]+ on s[a..b]: at least one character, none a space or "@"
NoSpaceNoAt(s, a, b) ==
    /\ a <= b
    /\ \A k \in a..b : ~IsSpace(CharAt(s, k)) /\ CharAt(s, k) # "@"

\* emailRegex.test(s) for /^[^\s@]+@[^\s@]+\.[^\s@]+$/
emailRegexTest(s) ==
    \E i \in 1..Len(s) : \E j \in 1..Len(s) :
        /\ i < j
        /\ CharAt(s, i) = "@"
        /\ CharAt(s, j) = "."
        /\ NoSpaceNoAt(s, 1, i - 1)
        /\ NoSpaceNoAt(s, i + 1, j - 1)
        /\ NoSpaceNoAt(s, j + 1, Len(s))

\* the validation without its trim()
LoginValidate_NoTrim(email, password) ==
    IF email = "" \/ password = "" THEN "Email and password are required" ELSE ""

\* Login.handleSubmit's input validation: "" when the input passes
LoginValidate(email, password) ==
    IF Trim(email) = "" \/ Trim(password) = ""
    THEN "Email and password are required"
    ELSE ""

MinPasswordLength == 6

\* the validation without its minimum-length check
SignupValidate_NoLengthCheck(formData) ==
    IF Trim(formData.fullName) = "" THEN "Full name is required"
    ELSE IF Trim(formData.email) = "" THEN "Email is required"
    ELSE IF ~emailRegexTest(formData.email) THEN "Please enter a valid email address"
    ELSE IF formData.password # formData.confirmPassword THEN "Passwords do not match"
    ELSE ""

\* the validation with the length check moved before the match check
SignupValidate_LengthFirst(formData) ==
    IF Trim(formData.fullName) = "" THEN "Full name is required"
    ELSE IF Trim(formData.email) = "" THEN "Email is required"
    ELSE IF ~emailRegexTest(formData.email) THEN "Please enter a valid email address"
    ELSE IF Len(formData.password) < MinPasswordLength
         THEN "Password must be at least 6 characters"
    ELSE IF formData.password # formData.confirmPassword THEN "Passwords do not match"
    ELSE ""

\* the validation refusing a password of exactly the minimum length
SignupValidate_LengthAboveMin(formData) ==
    IF Trim(formData.fullName) = "" THEN "Full name is required"
    ELSE IF Trim(formData.email) = "" THEN "Email is required"
    ELSE IF ~emailRegexTest(formData.email) THEN "Please enter a valid email address"
    ELSE IF formData.password # formData.confirmPassword THEN "Passwords do not match"
    ELSE IF Len(formData.password) <= MinPasswordLength
         THEN "Password must be at least 6 characters"
    ELSE ""

\* Signup.handleSubmit's input validation: the first failing check's message,
\* "" when the input passes
SignupValidate(formData) ==
    IF Trim(formData.fullName) = "" THEN "Full name is required"
    ELSE IF Trim(formData.email) = "" THEN "Email is required"
    ELSE IF ~emailRegexTest(formData.email) THEN "Please enter a valid email address"
    ELSE IF formData.password # formData.confirmPassword THEN "Passwords do not match"
    ELSE IF Len(formData.password) < MinPasswordLength
         THEN "Password must be at least 6 characters"
    ELSE ""

UpperCase ==
    {"A", "B", "C", "D", "E", "F", "G", "H", "I", "J", "K", "L", "M",
     "N", "O", "P", "Q", "R", "S", "T", "U", "V", "W", "X", "Y", "Z"}

LowerCase ==
    {"a", "b", "c", "d", "e", "f", "g", "h", "i", "j", "k", "l", "m",
     "n", "o", "p", "q", "r", "s", "t", "u", "v", "w", "x", "y", "z"}

Digit == {"0", "1", "2", "3", "4", "5", "6", "7", "8", "9"}

\* /[...]/.test(s): some character of s is in the class
HasChar(s, class) == \E k \in 1..Len(s) : CharAt(s, k) \in class

HasOther(s) ==
    \E k \in 1..Len(s) : CharAt(s, k) \notin (UpperCase \cup LowerCase \cup Digit)

LengthStep1 == 8
LengthStep2 == 12
ModerateFrom == 2
StrongFrom == 4

Bit(b) == IF b THEN 1 ELSE 0

\* the evaluation without its second length step
evaluatePasswordStrength_OneLengthStep(password) ==
    IF ~Truthy(password) THEN [score |-> 0, message |-> "", color |-> "gray"]
    ELSE LET score == Bit(Len(password) >= LengthStep1)
                      + Bit(HasChar(password, UpperCase))
                      + Bit(HasChar(password, Digit))
                      + Bit(HasOther(password))
         IN  IF score < ModerateFrom
             THEN [score |-> score, message |-> "Weak", color |-> "red"]
             ELSE IF score < StrongFrom
             THEN [score |-> score, message |-> "Moderate", color |-> "yellow"]
             ELSE [score |-> score, message |-> "Strong", color |-> "green"]

\* the evaluation counting a lowercase letter as an uppercase one
evaluatePasswordStrength_AnyLetter(password) ==
    IF ~Truthy(password) THEN [score |-> 0, message |-> "", color |-> "gray"]
    ELSE LET score == Bit(Len(password) >= LengthStep1)
                      + Bit(Len(password) >= LengthStep2)
                      + Bit(HasChar(password, UpperCase \cup LowerCase))
                      + Bit(HasChar(password, Digit))
                      + Bit(HasOther(password))
         IN  IF score < ModerateFrom
             THEN [score |-> score, message |-> "Weak", color |-> "red"]
             ELSE IF score < StrongFrom
             THEN [score |-> score, message |-> "Moderate", color |-> "yellow"]
             ELSE [score |-> score, message |-> "Strong", color |-> "green"]

\* the value evaluatePasswordStrength passes to setPasswordStrength
evaluatePasswordStrength(password) ==
    IF ~Truthy(password) THEN [score |-> 0, message |-> "", color |-> "gray"]
    ELSE LET score == Bit(Len(password) >= LengthStep1)
                      + Bit(Len(password) >= LengthStep2)
                      + Bit(HasChar(password, UpperCase))
                      + Bit(HasChar(password, Digit))
                      + Bit(HasOther(password))
         IN  IF score < ModerateFrom
             THEN [score |-> score, message |-> "Weak", color |-> "red"]
             ELSE IF score < StrongFrom
             THEN [score |-> score, message |-> "Moderate", color |-> "yellow"]
             ELSE [score |-> score, message |-> "Strong", color |-> "green"]

(***************************************************************************)
(* The components' state and the inputs of the model                       *)
(***************************************************************************)
LoginInitial == [email |-> "", password |-> "", error |-> "", loading |-> FALSE]

SignupInitial ==
    [formData |-> [fullName |-> "", email |-> "", password |-> "", confirmPassword |-> ""],
     error |-> "",
     loading |-> FALSE,
     passwordStrength |-> [score |-> 0, message |-> "", color |-> "gray"],
     role |-> "user"]

\* location.state of the navigation that led to the view: the role hint and the
\* intended destination, each Undefined when the navigation carried none
LocationStates ==
    {[role |-> Undefined, from |-> Undefined],
     [role |-> "admin", from |-> "/orders"]}

\* what the user types into the Login inputs
LoginEmails == {"", "a@b.c"}
LoginPasswords == {" ", "secret"}

\* what the user types into the Signup inputs (each starts empty; the
\* validation's cases are explored from FormValues below)
SignupValues(name) ==
    CASE name = "fullName" -> {"", "Al"}
      [] name = "email" -> {"a@b.c"}
      [] name = "password" -> {"abcdef"}
      [] name = "confirmPassword" -> {"abcdef"}

FieldNames == {"fullName", "email", "password", "confirmPassword"}

Roles == {"user", "admin"}

(***************************************************************************)
(* The auth service's answers, seen from the handler: how the fetch and    *)
(* the body parse end, the status, the body's fields, and which call of    *)
(* the success path, if any, raises an error.                              *)
(***************************************************************************)
NoData == [token |-> Undefined, role |-> Undefined, email |-> Undefined, message |-> Undefined]

Calls == {"setItem:token", "setItem:userRole", "setItem:email", "authContext", "navigate"}

\* a 2xx answer carrying data, in which call c of the success path throws
Success(data, c) == [transport |-> "ok", ok |-> TRUE, data |-> data, throwAt |-> c]

Responses ==
    {[transport |-> "network", ok |-> FALSE, data |-> NoData, throwAt |-> "none"]}
    \cup {[transport |-> "parse", ok |-> TRUE, data |-> NoData, throwAt |-> "none"]}
    \cup {[transport |-> "ok", ok |-> FALSE, data |-> [NoData EXCEPT !.message = m],
           throwAt |-> "none"] : m \in {"Invalid credentials"}}
    \cup {Success([token |-> t, role |-> r, email |-> Undefined, message |-> Undefined],
                  "none") : t \in {Undefined, "", "tok"}, r \in {"user", "admin"}}
    \cup {Success([token |-> "tok", role |-> "user", email |-> e, message |-> Undefined],
                  "none") : e \in {"a@b.c", "srv@b.c"}}
    \cup {Success([token |-> "tok", role |-> "admin", email |-> Undefined,
                   message |-> Undefined], c) : c \in Calls}

NoResponse == [transport |-> "none", ok |-> FALSE, data |-> NoData, throwAt |-> "none"]

NoRequest == [flow |-> "none", live |-> FALSE]

\* a step that issued no request, resumed none and redirected nowhere
Quiet(kind, flow) ==
    [kind |-> kind, flow |-> flow, req |-> NoRequest, resp |-> NoResponse,
     effects |-> <<>>, thrown |-> Undefined, redirect |-> Undefined]

(***************************************************************************)
(* The part of a submit handler that runs after its await: the try block,  *)
(* as the store it leaves, the calls it completed, the error it threw      *)
(* (Undefined when none) and the redirect it issued (Undefined when none). *)
(***************************************************************************)
Started(store) ==
    [store |-> store, effects |-> <<>>, thrown |-> Undefined, redirect |-> Undefined]

Throw(run, err) == [run EXCEPT !.thrown = err]

Call(name, key, value) == [call |-> name, key |-> key, value |-> value]

\* one call of the success path, completed
Apply(run, c) ==
    [run EXCEPT
        !.store = IF c.key # "" THEN setItem(@, c.key, c.value) ELSE @,
        !.redirect = IF c.call = "navigate" THEN c.value ELSE @,
        !.effects = Append(@, c.call)]

\* the calls in program order, up to the one that throws
RECURSIVE Perform(_, _, _)
Perform(run, calls, throwAt) ==
    IF calls = <<>> THEN run
    ELSE IF Head(calls).call = throwAt THEN Throw(run, "error raised by " \o throwAt)
    ELSE Perform(Apply(run, Head(calls)), Tail(calls), throwAt)

\* await fetch(...), await res.json(), if (!res.ok) throw new Error(...)
Received(run, resp, fallback) ==
    IF resp.transport = "network" THEN Throw(run, "Failed to fetch")
    ELSE IF resp.transport = "parse" THEN Throw(run, "Unexpected end of JSON input")
    ELSE IF ~resp.ok THEN Throw(run, Or(resp.data.message, fallback))
    ELSE run

\* the try block redirecting to the dashboard whatever the intended destination
LoginTry_IgnoreFrom(store, req, resp) ==
    LET got == Received(Started(store), resp, "Login failed")
        data == resp.data
    IN  IF got.thrown # Undefined THEN got
        ELSE Perform(got,
                     <<Call("setItem:token", "token", data.token),
                       Call("setItem:userRole", "userRole", data.role),
                       Call("setItem:email", "email", req.email),
                       Call("authContext", "", req.email),
                       Call("navigate", "", Dashboard(data.role))>>,
                     resp.throwAt)

\* the try block persisting the email of the response instead of the typed one
LoginTry_StoreResultEmail(store, req, resp) ==
    LET got == Received(Started(store), resp, "Login failed")
        data == resp.data
    IN  IF got.thrown # Undefined THEN got
        ELSE Perform(got,
                     <<Call("setItem:token", "token", data.token),
                       Call("setItem:userRole", "userRole", data.role),
                       Call("setItem:email", "email", data.email),
                       Call("authContext", "", req.email),
                       Call("navigate", "",
                            IF req.from # "/" THEN req.from ELSE Dashboard(data.role))>>,
                     resp.throwAt)

\* the try block redirecting before it persists the session
LoginTry_NavigateFirst(store, req, resp) ==
    LET got == Received(Started(store), resp, "Login failed")
        data == resp.data
    IN  IF got.thrown # Undefined THEN got
        ELSE Perform(got,
                     <<Call("navigate", "",
                            IF req.from # "/" THEN req.from ELSE Dashboard(data.role)),
                       Call("setItem:token", "token", data.token),
                       Call("setItem:userRole", "userRole", data.role),
                       Call("setItem:email", "email", req.email),
                       Call("authContext", "", req.email)>>,
                     resp.throwAt)

\* Login.handleSubmit, the try block
LoginTry(store, req, resp) ==
    LET got == Received(Started(store), resp, "Login failed")
        data == resp.data
    IN  IF got.thrown # Undefined THEN got
        ELSE Perform(got,
                     <<Call("setItem:token", "token", data.token),
                       Call("setItem:userRole", "userRole", data.role),
                       Call("setItem:email", "email", req.email),
                       Call("authContext", "", req.email),
                       Call("navigate", "",
                            IF req.from # "/" THEN req.from ELSE Dashboard(data.role))>>,
                     resp.throwAt)

\* the try block redirecting before it has persisted the email
SignupTry_NavigateEarly(store, req, resp) ==
    LET got == Received(Started(store), resp, "Registration failed")
        data == resp.data
    IN  IF got.thrown # Undefined THEN got
        ELSE Perform(got,
                     <<Call("authContext", "", Undefined),
                       Call("setItem:token", "token", data.token),
                       Call("setItem:userRole", "userRole", req.role),
                       Call("navigate", "", Dashboard(req.role)),
                       Call("setItem:email", "email", req.email)>>,
                     resp.throwAt)

\* the try block redirecting by the role of the response
SignupTry_ServerRole(store, req, resp) ==
    LET got == Received(Started(store), resp, "Registration failed")
        data == resp.data
    IN  IF got.thrown # Undefined THEN got
        ELSE Perform(got,
                     <<Call("authContext", "", Undefined),
                       Call("setItem:token", "token", data.token),
                       Call("setItem:userRole", "userRole", req.role),
                       Call("setItem:email", "email", req.email),
                       Call("navigate", "", Dashboard(data.role))>>,
                     resp.throwAt)

\* Signup.handleSubmit, the try block
SignupTry(store, req, resp) ==
    LET got == Received(Started(store), resp, "Registration failed")
        data == resp.data
    IN  IF got.thrown # Undefined THEN got
        ELSE Perform(got,
                     <<Call("authContext", "", Undefined),
                       Call("setItem:token", "token", data.token),
                       Call("setItem:userRole", "userRole", req.role),
                       Call("setItem:email", "email", req.email),
                       Call("navigate", "", Dashboard(req.role))>>,
                     resp.throwAt)

\* the handler's end without its finally block
Settled_NoFinally(state, run, message) ==
    [state EXCEPT !.error = IF run.thrown # Undefined THEN message ELSE @]

\* catch (err) { setError(...) } finally { setLoading(false) }
Settled(state, run, message) ==
    [state EXCEPT !.error = IF run.thrown # Undefined THEN message ELSE @,
                  !.loading = FALSE]

\* the handlers of a component that has unmounted still run to their end
Orphaned(reqs) == [k \in DOMAIN reqs |-> [reqs[k] EXCEPT !.live = FALSE]]

Without(reqs, i) == [k \in 1..(Len(reqs) - 1) |-> IF k < i THEN reqs[k] ELSE reqs[k + 1]]

NoLocation == [role |-> Undefined, from |-> Undefined]

(***************************************************************************)
(* Actions                                                                 *)
(***************************************************************************)
Init ==
    /\ view = "none"
    /\ location = NoLocation
    /\ login = LoginInitial
    /\ signup = SignupInitial
    /\ localStorage = EmptyStorage
    /\ pending = <<>>
    /\ last = Quiet("init", "none")

\* the mount redirecting on any stored token, the empty one included
Mount_AnyToken(flow, st) ==
    LET token == getItem(localStorage, "token")
        userRole == getItem(localStorage, "userRole")
        target == IF token # Null THEN Dashboard(userRole) ELSE Undefined
    IN  /\ Len(pending) <= MaxOrphans
        /\ view' = IF target # Undefined THEN "none" ELSE flow
        /\ location' = IF target # Undefined THEN NoLocation ELSE st
        /\ login' = LoginInitial
        /\ signup' = IF flow = "signup" /\ Truthy(st.role)
                     THEN [SignupInitial EXCEPT !.role = st.role]
                     ELSE SignupInitial
        /\ pending' = Orphaned(pending)
        /\ last' = [Quiet("mount", flow) EXCEPT
                        !.redirect = target,
                        !.effects = IF target # Undefined THEN <<"navigate">> ELSE <<>>]
        /\ UNCHANGED localStorage

\* The route renders Login or Signup with location.state st: a new component
\* instance with its initial state; its effects run; the instance it replaces
\* is gone.
Mount(flow, st) ==
    LET token == getItem(localStorage, "token")
        userRole == getItem(localStorage, "userRole")
        target == IF Truthy(token) THEN Dashboard(userRole) ELSE Undefined
    IN  /\ Len(pending) <= MaxOrphans
        /\ view' = IF target # Undefined THEN "none" ELSE flow
        /\ location' = IF target # Undefined THEN NoLocation ELSE st
        /\ login' = LoginInitial
        /\ signup' = IF flow = "signup" /\ Truthy(st.role)
                     THEN [SignupInitial EXCEPT !.role = st.role]
                     ELSE SignupInitial
        /\ pending' = Orphaned(pending)
        /\ last' = [Quiet("mount", flow) EXCEPT
                        !.redirect = target,
                        !.effects = IF target # Undefined THEN <<"navigate">> ELSE <<>>]
        /\ UNCHANGED localStorage

\* onChange of Login's email input
LoginSetEmail(value) ==
    /\ view = "login"
    /\ login' = [login EXCEPT !.email = value]
    /\ last' = Quiet("edit", "login")
    /\ UNCHANGED <<view, location, signup, localStorage, pending>>

\* onChange of Login's password input
LoginSetPassword(value) ==
    /\ view = "login"
    /\ login' = [login EXCEPT !.password = value]
    /\ last' = Quiet("edit", "login")
    /\ UNCHANGED <<view, location, signup, localStorage, pending>>

\* the request Login.handleSubmit issues and the variables its continuation
\* reads; state is the location.state its role and from were taken from
LoginRequest ==
    LET role == Or(location.role, "user")
    IN  [flow |-> "login", live |-> TRUE,
         body |-> [email |-> login.email, password |-> login.password, role |-> role],
         email |-> login.email, role |-> role, from |-> Or(location.from, "/"),
         state |-> location]

\* Login.handleSubmit up to await fetch(...).  The handler does not read
\* loading; only the submit button's disabled attribute does (line 174).
LoginSubmit ==
    /\ view = "login"
    /\ IF LoginValidate(login.email, login.password) # ""
       THEN /\ login' = [login EXCEPT
                            !.error = LoginValidate(login.email, login.password)]
            /\ last' = Quiet("submit", "login")
            /\ UNCHANGED pending
       ELSE /\ Len(pending) < MaxInflight
            /\ login' = [login EXCEPT !.error = "", !.loading = TRUE]
            /\ pending' = Append(pending, LoginRequest)
            /\ last' = [Quiet("submit", "login") EXCEPT
                            !.req = LoginRequest, !.effects = <<"fetch">>]
    /\ UNCHANGED <<view, location, signup, localStorage>>

\* onClick of Login's "Forgot Password?": navigate("/forgot-password", ...); the
\* route it leads to is not one of the two views
ForgotPassword ==
    /\ view = "login"
    /\ view' = "none"
    /\ location' = NoLocation
    /\ login' = LoginInitial
    /\ pending' = Orphaned(pending)
    /\ last' = [Quiet("click", "login") EXCEPT
                    !.redirect = "/forgot-password", !.effects = <<"navigate">>]
    /\ UNCHANGED <<signup, localStorage>>

\* handleChange evaluating the strength on the value of whatever field changed
SignupChange_EvaluateAnyField(name, value) ==
    /\ view = "signup"
    /\ signup' = [signup EXCEPT
                    !.formData[name] = value,
                    !.passwordStrength = evaluatePasswordStrength(value)]
    /\ last' = Quiet("edit", "signup")
    /\ UNCHANGED <<view, location, login, localStorage, pending>>

\* Signup.handleChange
SignupChange(name, value) ==
    /\ view = "signup"
    /\ signup' = [signup EXCEPT
                    !.formData[name] = value,
                    !.passwordStrength = IF name = "password"
                                         THEN evaluatePasswordStrength(value)
                                         ELSE @]
    /\ last' = Quiet("edit", "signup")
    /\ UNCHANGED <<view, location, login, localStorage, pending>>

\* onChange of Signup's role select
SignupSetRole(value) ==
    /\ view = "signup"
    /\ signup' = [signup EXCEPT !.role = value]
    /\ last' = Quiet("edit", "signup")
    /\ UNCHANGED <<view, location, login, localStorage, pending>>

\* the request Signup.handleSubmit issues and the variables its continuation reads
SignupRequest ==
    [flow |-> "signup", live |-> TRUE,
     body |-> [fullName |-> signup.formData.fullName, email |-> signup.formData.email,
               password |-> signup.formData.password, role |-> signup.role],
     email |-> signup.formData.email, role |-> signup.role,
     formData |-> signup.formData, state |-> location]

\* Signup.handleSubmit up to await fetch(...).  The handler does not read
\* loading; only the submit button's disabled attribute does (line 569).
SignupSubmit ==
    /\ view = "signup"
    /\ IF SignupValidate(signup.formData) # ""
       THEN /\ signup' = [signup EXCEPT !.error = SignupValidate(signup.formData)]
            /\ last' = Quiet("submit", "signup")
            /\ UNCHANGED pending
       ELSE /\ Len(pending) < MaxInflight
            /\ signup' = [signup EXCEPT !.error = "", !.loading = TRUE]
            /\ pending' = Append(pending, SignupRequest)
            /\ last' = [Quiet("submit", "signup") EXCEPT
                            !.req = SignupRequest, !.effects = <<"fetch">>]
    /\ UNCHANGED <<view, location, login, localStorage>>

\* The request of pending[i] settles as resp and its handler runs to its end:
\* try, catch, finally.  The state setters of a handler whose component has
\* unmounted change nothing, and a redirect unmounts the mounted component,
\* whose state is gone with it.
Resolve(i, resp) ==
    /\ i \in DOMAIN pending
    /\ LET req == pending[i]
           run == IF req.flow = "login"
                  THEN LoginTry(localStorage, req, resp)
                  ELSE SignupTry(localStorage, req, resp)
           left == run.redirect # Undefined
       IN
        /\ localStorage' = run.store
        /\ login' = IF left THEN LoginInitial
                    ELSE IF req.live /\ req.flow = "login"
                    THEN Settled(login, run, "An unexpected error occurred. Please try again.")
                    ELSE login
        /\ signup' = IF left THEN SignupInitial
                     ELSE IF req.live /\ req.flow = "signup"
                     THEN Settled(signup, run, "Failed to create an account. Please try again.")
                     ELSE signup
        /\ view' = IF left THEN "none" ELSE view
        /\ location' = IF left THEN NoLocation ELSE location
        /\ pending' = IF left THEN Orphaned(Without(pending, i)) ELSE Without(pending, i)
        /\ last' = [kind |-> "resolve", flow |-> req.flow, req |-> req, resp |-> resp,
                    effects |-> run.effects, thrown |-> run.thrown,
                    redirect |-> run.redirect]

(***************************************************************************)
(* The Signup form alone, started with the inputs already typed: every     *)
(* combination of FormValues, then submits, role changes and answers.      *)
(***************************************************************************)
FormValues(name) ==
    CASE name = "fullName" -> {"", " ", "Al"}
      [] name = "email" -> {"", " ", "a@b", "a b@c.d", "a@@b.c", "@b.c", "a@.c", "a@b.", "a@b.c"}
      [] name = "password" -> {"", "abc", "abcde", "abcdef"}
      [] name = "confirmPassword" -> {"", "abc", "abcdef"}

\* the state handleChange leaves once the user has typed formData
Typed(formData) ==
    [SignupInitial EXCEPT
        !.formData = formData,
        !.passwordStrength = evaluatePasswordStrength(formData.password)]

InitSignupForm ==
    /\ view = "signup"
    /\ location = NoLocation
    /\ login = LoginInitial
    /\ \E fullName \in FormValues("fullName"), email \in FormValues("email"),
          password \in FormValues("password"),
          confirmPassword \in FormValues("confirmPassword") :
            signup = Typed([fullName |-> fullName, email |-> email, password |-> password,
                            confirmPassword |-> confirmPassword])
    /\ localStorage = EmptyStorage
    /\ pending = <<>>
    /\ last = Quiet("edit", "signup")

NextSignupForm ==
    \/ \E value \in Roles : SignupSetRole(value)
    \/ SignupSubmit
    \/ \E i \in 1..MaxInflight : \E resp \in Responses : Resolve(i, resp)

SpecSignupForm == InitSignupForm /\ [][NextSignupForm]_vars

(***************************************************************************)
(* The password input of Signup alone: the user replaces its content by    *)
(* one of PasswordValues, and handleChange evaluates its strength.         *)
(***************************************************************************)
MaxPad == 13   \* lowercase letters a typed password may start with

RECURSIVE Pad(_)
Pad(n) == IF n = 0 THEN "" ELSE "a" \o Pad(n - 1)

\* lowercase letters followed by any of an uppercase letter, a digit and a
\* symbol, and the two passwords "abcdefgh" and "Abcdefgh1!"
PasswordValues ==
    {Pad(n) \o tail : n \in 0..MaxPad,
                      tail \in {"", "A", "1", "!", "A1", "A!", "1!", "A1!"}}
    \cup {"abcdefgh", "Abcdefgh1!"}

InitPasswordField ==
    /\ view = "signup"
    /\ location = NoLocation
    /\ login = LoginInitial
    /\ signup = SignupInitial
    /\ localStorage = EmptyStorage
    /\ pending = <<>>
    /\ last = Quiet("mount", "signup")

NextPasswordField == \E value \in PasswordValues : SignupChange("password", value)

SpecPasswordField == InitPasswordField /\ [][NextPasswordField]_vars

(***************************************************************************)
(* The inputs of Signup alone: the user replaces the content of any field  *)
(* by one of EditValues and selects a role.                                *)
(***************************************************************************)
EditValues(name) ==
    CASE name = "fullName" -> {"", "Al"}
      [] name = "email" -> {"", "a@b.c"}
      [] name = "password" -> {"", "abcdef", "Abcdefgh", "aaaaaaaaaaaa1", "Abcdefgh1!"}
      [] name = "confirmPassword" -> {"", "abcdef", "Abcdefgh1!"}

NextSignupEdits ==
    \/ \E name \in FieldNames : \E value \in EditValues(name) : SignupChange(name, value)
    \/ \E value \in Roles : SignupSetRole(value)

SpecSignupEdits == InitPasswordField /\ [][NextSignupEdits]_vars

Next ==
    \/ \E flow \in {"login", "signup"} : \E st \in LocationStates : Mount(flow, st)
    \/ \E value \in LoginEmails : LoginSetEmail(value)
    \/ \E value \in LoginPasswords : LoginSetPassword(value)
    \/ LoginSubmit
    \/ ForgotPassword
    \/ \E name \in FieldNames : \E value \in SignupValues(name) : SignupChange(name, value)
    \/ \E value \in Roles : SignupSetRole(value)
    \/ SignupSubmit
    \/ \E i \in 1..MaxInflight : \E resp \in Responses : Resolve(i, resp)

Spec == Init /\ [][Next]_vars

(***************************************************************************)
(* Vocabulary of the properties below, stated without the operators of the *)
(* model: what a blank field, a well-formed email and a valid form are,    *)
(* the order of the signup checks, and what the last step did.             *)
(***************************************************************************)
\* the requests of the mounted form instance that await their response
InFlight == {k \in DOMAIN pending : pending[k].live}

\* ev: the handler of a mounted Login resumed on a non-2xx answer with a message
LoginRejectedWith(ev) ==
    /\ ev.kind = "resolve"
    /\ ev.flow = "login"
    /\ ev.req.live
    /\ ev.resp.transport = "ok"
    /\ ~ev.resp.ok
    /\ Truthy(ev.resp.data.message)

\* empty once trimmed: no character but whitespace
Blank(s) == \A k \in 1..Len(s) : IsSpace(CharAt(s, k))

Ats(s) == {k \in 1..Len(s) : CharAt(s, k) = "@"}

\* local-part "@" domain "." tld, no whitespace
WellFormedEmail(s) ==
    /\ \A k \in 1..Len(s) : ~IsSpace(CharAt(s, k))
    /\ Cardinality(Ats(s)) = 1
    /\ \A a \in Ats(s) : a > 1 /\ \E d \in (a + 2)..(Len(s) - 1) : CharAt(s, d) = "."

FormOk(f) ==
    /\ ~Blank(f.fullName)
    /\ WellFormedEmail(f.email)
    /\ f.password = f.confirmPassword
    /\ Len(f.password) >= 6

\* the checks of the form in the order the spec gives them: does check n fail?
Fails(n, f) ==
    CASE n = 1 -> Blank(f.fullName)
      [] n = 2 -> Blank(f.email)
      [] n = 3 -> ~WellFormedEmail(f.email)
      [] n = 4 -> f.password # f.confirmPassword
      [] n = 5 -> Len(f.password) < 6

CheckMessage ==
    <<"Full name is required", "Email is required", "Please enter a valid email address",
      "Passwords do not match", "Password must be at least 6 characters">>

\* this step is a run of Signup.handleSubmit up to its await
SignupSubmitStep == last'.kind = "submit" /\ last'.flow = "signup"

Failing(f) == {n \in 1..5 : Fails(n, f)}

\* the message of the least failing check, "" when none fails
Earliest(f) ==
    IF Failing(f) = {} THEN ""
    ELSE CheckMessage[CHOOSE n \in Failing(f) : \A m \in Failing(f) : n <= m]

\* ev: a handler resumed on a 2xx answer and ran its try block to the end
Succeeded(ev) ==
    /\ ev.kind = "resolve"
    /\ ev.resp.transport = "ok"
    /\ ev.resp.ok
    /\ ev.thrown = Undefined

\* the navigation state carries an intended destination other than the root path
HasIntended(state) == state.from \notin {Undefined, Null, "", "/"}

RoleDashboard(role) ==
    CASE role = "admin" -> "/admin/dashboard"
      [] OTHER -> "/user/dashboard"

Position(effects, call) == {k \in DOMAIN effects : effects[k] = call}

\* some a happens before every b
Before(effects, a, b) ==
    \E i \in Position(effects, a) : \A j \in Position(effects, b) : i < j

\* ev: the handler of a mounted form resumed on a request that failed
RequestFailed(ev) ==
    /\ ev.kind = "resolve"
    /\ ev.req.live
    /\ (ev.resp.transport # "ok" \/ ~ev.resp.ok)

\* the error the form of flow displays
Displayed(flow) == IF flow = "login" THEN login.error ELSE signup.error

\* the strength criteria that password p meets: length >= 8, length >= 12,
\* an uppercase letter, a digit, a character that is neither letter nor digit
CriteriaMet(p) ==
    {n \in 1..5 :
        CASE n = 1 -> Len(p) >= 8
          [] n = 2 -> Len(p) >= 12
          [] n = 3 -> \E k \in 1..Len(p) : CharAt(p, k) \in UpperCase
          [] n = 4 -> \E k \in 1..Len(p) : CharAt(p, k) \in Digit
          [] n = 5 -> \E k \in 1..Len(p) :
                          CharAt(p, k) \notin UpperCase \cup LowerCase \cup Digit}

\* the message that displays a tier: none "", weak, moderate, strong
TierOf(score) ==
    CASE score < 2 -> "Weak"
      [] score >= 2 /\ score < 4 -> "Moderate"
      [] score >= 4 -> "Strong"

\* f's password is non-empty, confirmed and of at least 6 characters
PasswordsOk(f) ==
    /\ f.password # ""
    /\ f.password = f.confirmPassword
    /\ Len(f.password) >= 6

\* this step clears the error, sets loading and issues the register request
SubmitProceeds ==
    /\ signup'.error = ""
    /\ signup'.loading
    /\ last'.effects = <<"fetch">>
    /\ last'.req.flow = "signup"
    /\ last'.req.body.email = signup.formData.email
    /\ last'.req.body.password = signup.formData.password
    /\ pending' = Append(pending, last'.req)

\* a non-empty token is stored
TokenPresent(store) == store.token # Null /\ store.token # ""

\* ev: a handler resumed on a 2xx answer whose body parsed
RequestSucceeded(ev) ==
    /\ ev.kind = "resolve"
    /\ ev.resp.transport = "ok"
    /\ ev.resp.ok

\* the navigate calls ev completed
Navigations(ev) == Cardinality(Position(ev.effects, "navigate"))

\* ev issued no redirect
NoRedirect(ev) == ev.redirect = Undefined /\ Navigations(ev) = 0

(***************************************************************************)
(* C1.  A submit issued while a submission of the same form instance is    *)
(* still awaiting its response issues no second request: at most one       *)
(* request of the mounted form instance is in flight at any time.          *)
(* (handleSubmit does not read loading, only the submit button's disabled  *)
(* attribute does, so a second submit event issues a second request.)      *)
(***************************************************************************)
C1_AtMostOneInFlight == Cardinality(InFlight) <= 1

(***************************************************************************)
(* C2.  When the auth service rejects a login with a non-success status    *)
(* and a message m, the error displayed after the submission is exactly m, *)
(* loading is false and the submission has written no session entry.       *)
(* (The handler throws Error(m) and its catch replaces it by the generic   *)
(* message.)                                                               *)
(***************************************************************************)
C2_RejectionShowsServerMessage ==
    LoginRejectedWith(last) =>
        /\ login.error = last.resp.data.message
        /\ ~login.loading
        /\ last.effects = <<>>

(***************************************************************************)
(* C3.  A login submit whose email or password is empty once trimmed       *)
(* (empty, or whitespace only) displays the validation error, leaves       *)
(* loading as it was, issues no request and leaves the stored session      *)
(* unchanged.                                                              *)
(***************************************************************************)
C3_LoginEmptyFieldRejected ==
    [][(/\ last'.kind = "submit"
        /\ last'.flow = "login"
        /\ (Blank(login.email) \/ Blank(login.password)))
       => (/\ login'.error = "Email and password are required"
           /\ login'.loading = login.loading
           /\ last'.effects = <<>>
           /\ pending' = pending
           /\ localStorage' = localStorage)]_vars

\* a whitespace-only password was submitted and refused
C3_Witness ==
    /\ last.kind = "submit"
    /\ last.flow = "login"
    /\ login.email = "a@b.c"
    /\ login.password = " "
    /\ login.error = "Email and password are required"
    /\ ~login.loading
    /\ pending = <<>>

(***************************************************************************)
(* C4.  Every register request carries the form's fields, with a password  *)
(* that equals confirmPassword and has at least 6 characters, a fullName   *)
(* that is not blank and a well-formed email; a submit of a form that      *)
(* violates any of these displays the error of a check the form fails and  *)
(* issues no request.                                                      *)
(***************************************************************************)
C4_RegisterOnlyValidForms ==
    [][SignupSubmitStep =>
        IF FormOk(signup.formData)
        THEN /\ pending' = Append(pending, last'.req)
             /\ last'.req.body.fullName = signup.formData.fullName
             /\ last'.req.body.email = signup.formData.email
             /\ last'.req.body.password = signup.formData.password
             /\ last'.req.body.password = signup.formData.confirmPassword
        ELSE /\ pending' = pending
             /\ last'.effects = <<>>
             /\ \E n \in 1..5 : Fails(n, signup.formData) /\ signup'.error = CheckMessage[n]
    ]_vars

\* password = confirmPassword = "abc" was submitted and refused
C4_Witness ==
    /\ last.kind = "submit"
    /\ last.flow = "signup"
    /\ signup.formData = [fullName |-> "Al", email |-> "a@b.c", password |-> "abc",
                          confirmPassword |-> "abc"]
    /\ signup.error = "Password must be at least 6 characters"
    /\ pending = <<>>

(***************************************************************************)
(* C5.  Signup validation stops at the first failing check of the order    *)
(* empty fullName, empty email, invalid email format, password mismatch,   *)
(* password shorter than 6: the error displayed after a submit is the      *)
(* message of the earliest failing check, and none when no check fails.    *)
(***************************************************************************)
C5_EarliestFailingCheck ==
    [][SignupSubmitStep => signup'.error = Earliest(signup.formData)]_vars

\* mismatching and too short: the mismatch is reported
C5_Witness ==
    /\ last.kind = "submit"
    /\ last.flow = "signup"
    /\ signup.formData.fullName = "Al"
    /\ signup.formData.email = "a@b.c"
    /\ signup.formData.password = "abc"
    /\ signup.formData.confirmPassword = "abcdef"
    /\ signup.error = "Passwords do not match"

(***************************************************************************)
(* C6.  Once the request of a submission has settled and its handler has   *)
(* run to its end (success, rejection, transport failure, malformed body,  *)
(* or an error raised while persisting or redirecting), the loading flag   *)
(* of the form that submitted it is false.                                 *)
(***************************************************************************)
C6_LoadingCleared ==
    (last.kind = "resolve" /\ last.req.live) =>
        IF last.flow = "login" THEN ~login.loading ELSE ~signup.loading

\* the redirect of a successful signup raised an error, and loading is cleared
C6_Witness ==
    /\ last.kind = "resolve"
    /\ last.req.live
    /\ last.flow = "signup"
    /\ last.resp.throwAt = "navigate"
    /\ last.thrown # Undefined
    /\ view = "signup"
    /\ signup.error = "Failed to create an account. Please try again."
    /\ ~signup.loading

(***************************************************************************)
(* C7, as claimed.  On a successful submission in either flow the redirect *)
(* target is the intended destination from of the navigation state when it *)
(* is present and not "/", and otherwise the role-based dashboard.         *)
(* (Signup never reads from.)                                              *)
(***************************************************************************)
C7_IntendedDestinationInEitherFlow ==
    (last.kind = "resolve" /\ last.redirect # Undefined) =>
        IF HasIntended(last.req.state) THEN last.redirect = last.req.state.from
        ELSE last.redirect \in {RoleDashboard(last.resp.data.role),
                                RoleDashboard(last.req.body.role)}

(***************************************************************************)
(* C7, as amended.  A successful login redirects to from when it is        *)
(* present and not "/" and otherwise to the dashboard of the result's role *)
(* (/admin/dashboard for admin, /user/dashboard for any other); a          *)
(* successful signup always redirects to the dashboard of the role sent in *)
(* its request.                                                            *)
(***************************************************************************)
C7_RedirectTarget ==
    /\ Succeeded(last) => last.redirect # Undefined
    /\ (last.kind = "resolve" /\ last.redirect # Undefined) =>
          last.redirect =
              IF last.flow = "login"
              THEN IF HasIntended(last.req.state) THEN last.req.state.from
                   ELSE RoleDashboard(last.resp.data.role)
              ELSE RoleDashboard(last.req.body.role)

\* a login carrying the intended destination /orders redirected to /orders
C7_Witness ==
    /\ Succeeded(last)
    /\ last.flow = "login"
    /\ last.req.state.from = "/orders"
    /\ last.resp.data.role = "admin"
    /\ last.redirect = "/orders"

(***************************************************************************)
(* C8.  Within one submission a request is issued only once validation has *)
(* passed, and a redirect is issued only after the three session entries   *)
(* token, userRole and email have been written, in the same handler run.   *)
(***************************************************************************)
C8_ValidateThenSaveThenRedirect ==
    /\ (last.kind = "submit" /\ last.effects # <<>>) =>
          /\ last.effects = <<"fetch">>
          /\ IF last.flow = "login"
             THEN ~Blank(last.req.body.email) /\ ~Blank(last.req.body.password)
             ELSE FormOk(last.req.formData)
    /\ (last.kind = "resolve" /\ last.redirect # Undefined) =>
          /\ Position(last.effects, "navigate") # {}
          /\ \A call \in {"setItem:token", "setItem:userRole", "setItem:email"} :
                Before(last.effects, call, "navigate")
          /\ localStorage.token = JsString(last.resp.data.token)
          /\ localStorage.userRole # Null
          /\ localStorage.email = last.req.body.email

\* a signup that wrote the three entries and then redirected
C8_Witness ==
    /\ Succeeded(last)
    /\ last.flow = "signup"
    /\ last.effects = <<"authContext", "setItem:token", "setItem:userRole",
                        "setItem:email", "navigate">>
    /\ last.redirect = "/admin/dashboard"
    /\ localStorage = [token |-> "tok", userRole |-> "admin", email |-> "a@b.c"]

(***************************************************************************)
(* C9, as claimed.  After a successful submission in either flow the       *)
(* stored token, userRole and email are the token, role and email of the   *)
(* service's result (an entry holds String(value)).                        *)
(* (The code never reads the result's email, and signup never reads its    *)
(* role.)                                                                  *)
(***************************************************************************)
C9_SessionEqualsResult ==
    Succeeded(last) =>
        /\ localStorage.token = JsString(last.resp.data.token)
        /\ localStorage.userRole = JsString(last.resp.data.role)
        /\ localStorage.email = JsString(last.resp.data.email)

(***************************************************************************)
(* C9, as amended.  After a successful submission the stored token is the  *)
(* result's token; the stored userRole is the result's role after a login  *)
(* and the role sent in the request after a signup; the stored email is    *)
(* the email sent in the request.                                          *)
(***************************************************************************)
C9_SessionFromResultAndRequest ==
    Succeeded(last) =>
        /\ localStorage.token = JsString(last.resp.data.token)
        /\ localStorage.userRole = IF last.flow = "login"
                                   THEN JsString(last.resp.data.role)
                                   ELSE last.req.body.role
        /\ localStorage.email = last.req.body.email

\* the result of a login named another email than the one typed
C9_Witness ==
    /\ Succeeded(last)
    /\ last.flow = "login"
    /\ last.resp.data.email = "srv@b.c"
    /\ localStorage = [token |-> "tok", userRole |-> "user", email |-> "a@b.c"]

(***************************************************************************)
(* C10.  In every state of the storage, a userRole or an email entry is    *)
(* present only if a non-empty token entry is present.                     *)
(* (A success answer whose token is "" has its role and email persisted    *)
(* beside an empty token.)                                                 *)
(***************************************************************************)
C10_RoleOnlyWithToken ==
    (localStorage.userRole # Null \/ localStorage.email # Null) =>
        (localStorage.token # Null /\ localStorage.token # "")

(***************************************************************************)
(* C11.  When the login or the signup view mounts, a redirect is issued    *)
(* if and only if the stored token is non-empty: to /admin/dashboard when  *)
(* the stored userRole is exactly "admin", to /user/dashboard for every    *)
(* other userRole, an absent one included; with no token the view stays    *)
(* mounted and no redirect is issued.                                      *)
(***************************************************************************)
C11_MountRedirectsIffToken ==
    last.kind = "mount" =>
        IF localStorage.token # Null /\ localStorage.token # ""
        THEN /\ last.redirect = RoleDashboard(localStorage.userRole)
             /\ last.effects = <<"navigate">>
             /\ view = "none"
        ELSE /\ last.redirect = Undefined
             /\ last.effects = <<>>
             /\ view = last.flow

\* a token stored without a userRole: the mount redirects to the user dashboard
C11_Witness ==
    /\ last.kind = "mount"
    /\ localStorage.token = "tok"
    /\ localStorage.userRole = Null
    /\ last.redirect = "/user/dashboard"

(***************************************************************************)
(* C12.  The role that decides the dashboard of a successful submission    *)
(* is the role of the service's result after a login, whatever role hint   *)
(* the request carried, and the client-chosen role after a signup: the     *)
(* role selected in the form when it was submitted is the one sent in the  *)
(* register request, the one stored as userRole and the one whose          *)
(* dashboard is the redirect target.                                       *)
(***************************************************************************)
C12_RoleThatDecidesTheDashboard ==
    /\ (last.kind = "submit" /\ last.flow = "signup" /\ last.effects = <<"fetch">>) =>
          last.req.body.role = signup.role
    /\ (Succeeded(last) /\ last.flow = "login" /\ ~HasIntended(last.req.state)) =>
          last.redirect = RoleDashboard(last.resp.data.role)
    /\ (Succeeded(last) /\ last.flow = "signup") =>
          /\ localStorage.userRole = last.req.body.role
          /\ last.redirect = RoleDashboard(last.req.body.role)

\* a signup as admin answered with the role user: stored and redirected as admin
C12_Witness ==
    /\ Succeeded(last)
    /\ last.flow = "signup"
    /\ last.req.body.role = "admin"
    /\ last.resp.data.role = "user"
    /\ localStorage.userRole = "admin"
    /\ last.redirect = "/admin/dashboard"

(***************************************************************************)
(* C13.  Every failure of a submitted request (non-success status,         *)
(* unreachable service, malformed body) is caught in the submit handler    *)
(* and converted to one non-empty displayed string, and a transport or     *)
(* parse failure displays the generic "unexpected error" message.          *)
(* (Every failure is caught and displayed, but the catch of Signup         *)
(* displays "Failed to create an account. Please try again." for a         *)
(* transport or parse failure as for any other.)                           *)
(***************************************************************************)
C13_FailureShowsUnexpectedError ==
    RequestFailed(last) =>
        /\ last.thrown # Undefined
        /\ Displayed(last.flow) # ""
        /\ last.resp.transport \in {"network", "parse"} =>
              Displayed(last.flow) = "An unexpected error occurred. Please try again."

(***************************************************************************)
(* C14.  For every non-empty password the strength score is the number of  *)
(* the criteria it meets among: length >= 8, length >= 12, contains an     *)
(* uppercase letter, contains a digit, contains a non-alphanumeric         *)
(* character; so 0 <= score <= 5, and the tier is weak when score < 2,     *)
(* moderate when 2 <= score < 4 and strong when score >= 4.  The empty     *)
(* password has score 0 and no tier.                                       *)
(***************************************************************************)
C14_ScoreCountsCriteria ==
    last.kind = "edit" =>
        LET p == signup.formData.password
            strength == signup.passwordStrength
        IN  IF p = ""
            THEN strength.score = 0 /\ strength.message = ""
            ELSE /\ strength.score = Cardinality(CriteriaMet(p))
                 /\ strength.score \in 0..5
                 /\ strength.message = TierOf(strength.score)

\* twelve lowercase letters and a digit: both length steps and the digit, moderate
C14_Witness ==
    /\ last.kind = "edit"
    /\ signup.formData.password = "aaaaaaaaaaaa1"
    /\ signup.passwordStrength.score = 3
    /\ signup.passwordStrength.message = "Moderate"

(***************************************************************************)
(* C15, as claimed.  The password "" has score 0 and no tier, "abcdefgh"   *)
(* has score 1 and tier weak, "Abcdefgh1!" has score 5 and tier strong.    *)
(* ("Abcdefgh1!" has ten characters: it meets every criterion but          *)
(* length >= 12.)                                                          *)
(***************************************************************************)
C15_ScoreExamples ==
    last.kind = "edit" =>
        LET p == signup.formData.password
            strength == signup.passwordStrength
        IN  /\ p = "" => strength.score = 0 /\ strength.message = ""
            /\ p = "abcdefgh" => strength.score = 1 /\ strength.message = "Weak"
            /\ p = "Abcdefgh1!" => strength.score = 5 /\ strength.message = "Strong"

(***************************************************************************)
(* C15, as amended.  The password "" has score 0 and no tier, "abcdefgh"   *)
(* has score 1 and tier weak, "Abcdefgh1!" has score 4 and tier strong.    *)
(***************************************************************************)
C15_ScoreExamplesComputed ==
    last.kind = "edit" =>
        LET p == signup.formData.password
            strength == signup.passwordStrength
        IN  /\ p = "" => strength.score = 0 /\ strength.message = ""
            /\ p = "abcdefgh" => strength.score = 1 /\ strength.message = "Weak"
            /\ p = "Abcdefgh1!" => strength.score = 4 /\ strength.message = "Strong"

\* "Abcdefgh1!" was typed and evaluated
C15_Witness ==
    /\ last.kind = "edit"
    /\ signup.formData.password = "Abcdefgh1!"
    /\ signup.passwordStrength = [score |-> 4, message |-> "Strong", color |-> "green"]

(***************************************************************************)
(* C16, as claimed.  For every input whose password is non-empty, equals   *)
(* confirmPassword and has at least 6 characters and whose email is        *)
(* well-formed, signup validation succeeds and the submit proceeds to the  *)
(* register request.                                                       *)
(* (Such an input with a blank fullName is refused.)                       *)
(***************************************************************************)
C16_PasswordsAndEmailSuffice ==
    [][(/\ SignupSubmitStep
        /\ PasswordsOk(signup.formData)
        /\ WellFormedEmail(signup.formData.email))
       => SubmitProceeds]_vars

(***************************************************************************)
(* C16, as amended.  For every input whose fullName is not blank, whose    *)
(* password is non-empty, equals confirmPassword and has at least 6        *)
(* characters and whose email is well-formed, signup validation succeeds   *)
(* and the submit proceeds to the register request.                        *)
(***************************************************************************)
C16_ValidFormProceeds ==
    [][(/\ SignupSubmitStep
        /\ ~Blank(signup.formData.fullName)
        /\ PasswordsOk(signup.formData)
        /\ WellFormedEmail(signup.formData.email))
       => SubmitProceeds]_vars

\* a form with a password of exactly 6 characters was submitted and its request issued
C16_Witness ==
    /\ last.kind = "submit"
    /\ last.flow = "signup"
    /\ signup.formData = [fullName |-> "Al", email |-> "a@b.c", password |-> "abcdef",
                          confirmPassword |-> "abcdef"]
    /\ signup.error = ""
    /\ signup.loading
    /\ last.effects = <<"fetch">>
    /\ Len(pending) = 1

(***************************************************************************)
(* C17.  The flows never destroy a session: once a non-empty token is      *)
(* stored, after any submit, edit, mount or request resolution of either   *)
(* flow the token entry is still present and non-empty.                    *)
(* (A handler stores the token of a success answer without looking at it,  *)
(* over the token already stored: an answer whose token is "" replaces a   *)
(* stored token by the empty one.)                                         *)
(***************************************************************************)
C17_TokenNeverLost == [][TokenPresent(localStorage) => TokenPresent(localStorage')]_vars

(***************************************************************************)
(* C18.  After a submission has ended in Failed (an error is displayed and *)
(* loading is false), the next edit of an input field clears the           *)
(* displayed error.                                                        *)
(* (No onChange handler calls setError: the error stays until the next     *)
(* submit.)                                                                *)
(***************************************************************************)
C18_EditClearsError ==
    [][/\ (last'.kind = "edit" /\ last'.flow = "login"
             /\ login.error # "" /\ ~login.loading) => login'.error = ""
       /\ (last'.kind = "edit" /\ last'.flow = "signup"
             /\ signup.error # "" /\ ~signup.loading) => signup'.error = ""]_vars

(***************************************************************************)
(* C19.  In every state between two event-handler steps of either form,    *)
(* the flags are never loading = true together with a non-empty error.     *)
(* (A submit that fails validation while a request of the form is in       *)
(* flight sets the error and leaves loading true.)                         *)
(***************************************************************************)
C19_NeverLoadingWithError ==
    /\ ~(login.loading /\ login.error # "")
    /\ ~(signup.loading /\ signup.error # "")

(***************************************************************************)
(* C20.  A submission that ends with an error displayed leaves the stored  *)
(* session exactly as it was, on every failure path, the one included      *)
(* where the success answer was received and the auth-context callback or  *)
(* the redirect raised an error afterwards.                                *)
(* (Login writes the three entries before it calls login() and navigate(), *)
(* Signup before it calls navigate(): an error raised by these calls is    *)
(* displayed beside a session already written.)                            *)
(***************************************************************************)
C20_FailureLeavesSessionUntouched ==
    [][/\ (last'.kind = "submit" /\ last'.flow = "login" /\ login'.error # "") =>
             localStorage' = localStorage
       /\ (last'.kind = "submit" /\ last'.flow = "signup" /\ signup'.error # "") =>
             localStorage' = localStorage
       /\ (last'.kind = "resolve" /\ last'.thrown # Undefined) =>
             localStorage' = localStorage]_vars

(***************************************************************************)
(* C21.  In the signup form the displayed strength is always the score of  *)
(* the current password: in every state, after any sequence of edits of    *)
(* any fields, passwordStrength is the score and the tier of               *)
(* formData.password, and an edit that leaves the password as it was       *)
(* leaves passwordStrength as it was.                                      *)
(***************************************************************************)
C21_StrengthOfCurrentPassword ==
    /\ [](LET p == signup.formData.password
              strength == signup.passwordStrength
          IN  /\ strength.score = IF p = "" THEN 0 ELSE Cardinality(CriteriaMet(p))
              /\ strength.message = IF p = "" THEN "" ELSE TierOf(strength.score))
    /\ [][(last'.kind = "edit" /\ signup'.formData.password = signup.formData.password)
             => signup'.passwordStrength = signup.passwordStrength]_vars

\* "Abcdefgh1!" is the password and a later edit changed the confirmation
C21_Witness ==
    /\ last.kind = "edit"
    /\ signup.formData.password = "Abcdefgh1!"
    /\ signup.formData.confirmPassword = "abcdef"
    /\ signup.formData.fullName = "Al"
    /\ signup.passwordStrength = [score |-> 4, message |-> "Strong", color |-> "green"]

====
